---- MODULE Spec2Model ----
(***************************************************************************)
(* Model of tools/dump_offsets.py: one run of the script, from main() to   *)
(* process exit.                                                           *)
(*                                                                         *)
(* Text is modelled as sequences.  A symbol name is a sequence whose       *)
(* elements are the underscore character "_" or an underscore-free head    *)
(* chunk, so that name.startswith("_") is Head(name) = "_" and name[1:] is *)
(* Tail(name).  An address token and a hex() result are sequences of       *)
(* one-character strings.  A dump line is the sequence of tokens that      *)
(* line.split() yields for it.                                             *)
(***************************************************************************)
EXTENDS Integers, Sequences, FiniteSets, TLC

VARIABLES
    pc,            \* position in the script
    argv,          \* sys.argv
    liblldb_path,  \* main: liblldb_path = sys.argv[1]
    result,        \* dump_offsets: result of subprocess.run(["nm", ...])
    symbols,       \* dump_offsets: dict name -> address
    ref_offset,    \* dump_offsets: symbols[REFERENCE_SYMBOL]
    lldb_bin,      \* get_lldb_version: what is found at <dir>/../bin/lldb
    offsets,       \* dump_offsets: the report being built
    idx,           \* position of the for loop over INTERNAL_SYMBOLS
    stdout,        \* documents written to standard output
    stderr,        \* messages written to the error stream
    exit_status,   \* <<status>> once the process has exited, <<>> before
    log            \* the steps executed so far, in order

vars == <<pc, argv, liblldb_path, result, symbols, ref_offset, lldb_bin,
          offsets, idx, stdout, stderr, exit_status, log>>

\* Largest number of lines in the symbol dumper's output.
MaxLines == 3

NoValue == <<"NoValue">>
None == [none |-> TRUE]

(***************************************************************************)
(* Module constants of the script.                                         *)
(***************************************************************************)
RefHead == "ZN4lldb10SBDebugger10InitializeEv"

REFERENCE_SYMBOL == <<"_", RefHead>>

GetCategoryHead == "ZN12lldb_private17DataVisualization10Categories11GetCategoryENS_11ConstStringERNSt3__110shared_ptrINS_16TypeCategoryImplEEEb"
EnableHead == "ZN12lldb_private17DataVisualization10Categories6EnableERKNSt3__110shared_ptrINS_16TypeCategoryImplEEEj"
AddTypeSummaryHead == "ZN12lldb_private16TypeCategoryImpl14AddTypeSummaryEN4llvm9StringRefEN4lldb18FormatterMatchTypeENSt3__110shared_ptrINS_15TypeSummaryImplEEE"
AddTypeSyntheticHead == "ZN12lldb_private16TypeCategoryImpl16AddTypeSyntheticEN4llvm9StringRefEN4lldb18FormatterMatchTypeENSt3__110shared_ptrINS_17SyntheticChildrenEEE"
AddTypeFormatHead == "ZN12lldb_private16TypeCategoryImpl13AddTypeFormatEN4llvm9StringRefEN4lldb18FormatterMatchTypeENSt3__110shared_ptrINS_14TypeFormatImplEEE"
AddTypeFilterHead == "ZN12lldb_private16TypeCategoryImpl13AddTypeFilterEN4llvm9StringRefEN4lldb18FormatterMatchTypeENSt3__110shared_ptrINS_14TypeFilterImplEEE"
CXXCtorHead == "ZN12lldb_private24CXXFunctionSummaryFormatC2ERKNS_15TypeSummaryImpl5FlagsENSt3__18functionIFbRNS_11ValueObjectERNS_6StreamERKNS_18TypeSummaryOptionsEEEEPKcj"
FormatManagerHead == "ZN12lldb_private13FormatManager11GetCategoryENS_11ConstStringEb"
AddCXXSyntheticHead == "ZN12lldb_private10formatters15AddCXXSyntheticENSt3__110shared_ptrINS_16TypeCategoryImplEEENS1_8functionIFPNS_25SyntheticChildrenFrontEndEPNS_20CXXSyntheticChildrenENS2_INS_11ValueObjectEEEEEEPKcN4llvm9StringRefENS_17SyntheticChildren5FlagsEb"

\* Ordered list of (mangled, demangled) pairs.
INTERNAL_SYMBOLS ==
    << <<<<"_", GetCategoryHead>>, "DataVisualization::Categories::GetCategory">>,
       <<<<"_", EnableHead>>, "DataVisualization::Categories::Enable">>,
       <<<<"_", AddTypeSummaryHead>>, "TypeCategoryImpl::AddTypeSummary">>,
       <<<<"_", AddTypeSyntheticHead>>, "TypeCategoryImpl::AddTypeSynthetic">>,
       <<<<"_", AddTypeFormatHead>>, "TypeCategoryImpl::AddTypeFormat">>,
       <<<<"_", AddTypeFilterHead>>, "TypeCategoryImpl::AddTypeFilter">>,
       <<<<"_", CXXCtorHead>>, "CXXFunctionSummaryFormat::ctor">>,
       <<<<"_", FormatManagerHead>>, "FormatManager::GetCategory">>,
       <<<<"_", AddCXXSyntheticHead>>, "formatters::AddCXXSynthetic">> >>

(***************************************************************************)
(* int(addr, 16) and hex(n).                                               *)
(***************************************************************************)
HexDigits == <<"0", "1", "2", "3", "4", "5", "6", "7",
               "8", "9", "a", "b", "c", "d", "e", "f">>
UpperDigits == <<"0", "1", "2", "3", "4", "5", "6", "7",
                 "8", "9", "A", "B", "C", "D", "E", "F">>

IsHexDigit(c) == \E i \in 1..16 : HexDigits[i] = c \/ UpperDigits[i] = c

DigitValue(c) == (CHOOSE i \in 1..16 : HexDigits[i] = c \/ UpperDigits[i] = c) - 1

\* The token with an optional sign removed.
Unsigned(tok) ==
    IF Len(tok) > 0 /\ tok[1] \in {"-", "+"} THEN Tail(tok) ELSE tok

\* The digits of a token: sign and an optional 0x prefix removed.
Digits(tok) ==
    LET u == Unsigned(tok)
    IN  IF Len(u) >= 2 /\ u[1] = "0" /\ u[2] \in {"x", "X"}
        THEN SubSeq(u, 3, Len(u))
        ELSE u

\* Whether int(tok, 16) returns a value (it raises ValueError otherwise).
IsHex(tok) ==
    /\ Len(Digits(tok)) > 0
    /\ \A i \in 1..Len(Digits(tok)) : IsHexDigit(Digits(tok)[i])

RECURSIVE DigitsValue(_)
DigitsValue(ds) ==
    IF Len(ds) = 0 THEN 0
    ELSE 16 * DigitsValue(SubSeq(ds, 1, Len(ds) - 1)) + DigitValue(ds[Len(ds)])

RECURSIVE DecimalValue(_)
DecimalValue(ds) ==
    IF Len(ds) = 0 THEN 0
    ELSE 10 * DecimalValue(SubSeq(ds, 1, Len(ds) - 1)) + DigitValue(ds[Len(ds)])

\* A plausible slip: the base left out, int(tok).
Int10(tok) ==
    IF Len(tok) > 0 /\ tok[1] = "-"
    THEN 0 - DecimalValue(Digits(tok))
    ELSE DecimalValue(Digits(tok))

\* int(tok, 16), for a token on which it does not raise.
Int16(tok) ==
    IF Len(tok) > 0 /\ tok[1] = "-"
    THEN 0 - DigitsValue(Digits(tok))
    ELSE DigitsValue(Digits(tok))

RECURSIVE HexOfNat(_)
HexOfNat(n) ==
    IF n < 16 THEN <<HexDigits[n + 1]>>
    ELSE Append(HexOfNat(n \div 16), HexDigits[(n % 16) + 1])

\* A plausible slip: the magnitude rendered without its sign.
HexUnsigned(n) ==
    <<"0", "x">> \o HexOfNat(IF n < 0 THEN 0 - n ELSE n)

\* hex(n): "0x..." and, for a negative n, "-0x...".
Hex(n) ==
    IF n < 0 THEN <<"-", "0", "x">> \o HexOfNat(0 - n)
    ELSE <<"0", "x">> \o HexOfNat(n)

(***************************************************************************)
(* Parsing of the symbol dumper's output (the loop over splitlines()).     *)
(***************************************************************************)
\* A plausible slip: every leading underscore stripped (lstrip).
RECURSIVE NormalizeAll(_)
NormalizeAll(name) ==
    IF Len(name) > 0 /\ Head(name) = "_" THEN NormalizeAll(Tail(name)) ELSE name

\* if name.startswith("_"): name = name[1:]
Normalize(name) ==
    IF Len(name) > 0 /\ Head(name) = "_" THEN Tail(name) ELSE name

EmptyDict == [k \in {} |-> 0]

\* A plausible slip: an existing key keeps its first value.
DictPutFirst(d, k, v) ==
    [x \in DOMAIN d \cup {k} |-> IF x \in DOMAIN d THEN d[x] ELSE v]

\* d[k] = v on a dict used as a lookup table.
DictPut(d, k, v) ==
    [x \in DOMAIN d \cup {k} |-> IF x = k THEN v ELSE d[x]]

\* len(parts) >= 3
Qualifies(parts) == Len(parts) >= 3

\* The table after the loop has run over all of lines without raising.
RECURSIVE ParseLines(_)
ParseLines(lines) ==
    IF Len(lines) = 0 THEN EmptyDict
    ELSE LET before == ParseLines(SubSeq(lines, 1, Len(lines) - 1))
             parts  == lines[Len(lines)]
         IN  IF Qualifies(parts)
             THEN DictPut(before, Normalize(parts[3]), Int16(parts[1]))
             ELSE before

\* Index of the first line on which int(addr, 16) raises, 0 if there is none.
FirstBadLine(lines) ==
    LET bad == {i \in 1..Len(lines) : Qualifies(lines[i]) /\ ~IsHex(lines[i][1])}
    IN  IF bad = {} THEN 0 ELSE CHOOSE i \in bad : \A j \in bad : i <= j

(***************************************************************************)
(* Inputs: command lines, symbol dumps, and what the version probe finds.  *)
(***************************************************************************)
Chars(a, b, c, d) == <<a, b, c, d>>

\* Raw names as the dumper prints them.
RawRef2 == <<"_", "_", RefHead>>
RawRef1 == <<"_", RefHead>>
RawSummary2 == <<"_", "_", AddTypeSummaryHead>>
RawSummary1 == <<"_", AddTypeSummaryHead>>
RawSummary0 == <<AddTypeSummaryHead>>
RawGetCategory2 == <<"_", "_", GetCategoryHead>>

NmLines ==
    { <<Chars("1","0","0","0"), <<"T">>, RawRef2>>,
      <<Chars("2","0","0","0"), <<"T">>, RawRef2>>,
      <<Chars("1","0","0","0"), <<"T">>, RawRef1>>,
      <<Chars("2","0","0","0"), <<"T">>, RawSummary1>>,
      <<Chars("1","0","0","0"), <<"T">>, RawSummary2>>,
      <<Chars("2","0","0","0"), <<"T">>, RawSummary2>>,
      <<Chars("1","0","0","0"), <<"t">>, RawSummary0>>,
      <<<<"0">>, <<"t">>, RawGetCategory2, <<"extra">>>>,
      <<<<"U">>, RawRef2>>,
      <<<<"/", "l", "i", "b">>, <<"(for">>, <<"architecture">>, <<"arm64):">>>> }

NmOutputs == UNION {[1..n -> NmLines] : n \in 0..MaxLines}

\* result of subprocess.run(["nm", path]) when the utility could be started.
NmResults ==
    {[returncode |-> 0, stdout |-> out, stderr |-> ""] : out \in NmOutputs}
    \cup {[returncode |-> 1, stdout |-> <<>>, stderr |-> "nm: no such file"]}

\* A library path: its directory and the dot-separated parts of its file name.
Paths ==
    { [dir |-> "/opt/llvm/lib", file |-> <<"liblldb", "dylib">>],
      [dir |-> "/opt/llvm/lib", file |-> <<"liblldb", "21", "1", "7", "dylib">>] }

Argvs == {<<"dump_offsets.py">>} \cup {<<"dump_offsets.py", p>> : p \in Paths}

\* The strings matching \d+ that occur in the inputs.
Numbers == {"0", "1", "7", "19", "21"}

\* What is at <dir>/../bin/lldb: whether it exists, whether it can be
\* executed, and the result of running it with --version.
LldbBins ==
    { [exists |-> FALSE, starts |-> FALSE, returncode |-> 0, stdout |-> <<>>],
      [exists |-> TRUE, starts |-> FALSE, returncode |-> 0, stdout |-> <<>>],
      [exists |-> TRUE, starts |-> TRUE, returncode |-> 0,
       stdout |-> <<<<"lldb">>, <<"version">>, <<"21", "1", "7">>>>],
      [exists |-> TRUE, starts |-> TRUE, returncode |-> 0,
       stdout |-> <<<<"lldb">>, <<"version">>, <<"21", "1">>>>],
      [exists |-> TRUE, starts |-> TRUE, returncode |-> 1, stdout |-> <<>>],
      [exists |-> TRUE, starts |-> TRUE, returncode |-> 1,
       stdout |-> <<<<"lldb">>, <<"version">>, <<"19", "1", "0">>>>] }

(***************************************************************************)
(* get_lldb_version                                                        *)
(***************************************************************************)
IsTriple(w) == Len(w) >= 3 /\ \A i \in 1..3 : w[i] \in Numbers

\* re.search(r"version (\d+\.\d+\.\d+)", text) on text given as its words,
\* a word being the sequence of its dot-separated parts: the positions of a
\* match.
VersionMatches(words) ==
    {i \in 1..(Len(words) - 1) : words[i] = <<"version">> /\ IsTriple(words[i + 1])}

\* re.search(r"liblldb\.(\d+\.\d+\.\d+)\.dylib", path): the positions of a
\* match in the file name's parts.
LibNameMatches(file) ==
    {i \in 1..(Len(file) - 4) :
        /\ file[i] = "liblldb"
        /\ \A j \in 1..3 : file[i + j] \in Numbers
        /\ file[i + 4] = "dylib"}

Least(S) == CHOOSE i \in S : \A j \in S : i <= j

\* The value of the fallback from the library name on (lines 55-60).
VersionFromName(path) ==
    IF LibNameMatches(path.file) # {}
    THEN SubSeq(path.file, Least(LibNameMatches(path.file)) + 1,
                Least(LibNameMatches(path.file)) + 3)
    ELSE <<"unknown">>

\* The value get_lldb_version returns when subprocess.run does not raise.
get_lldb_version(path, bin) ==
    IF bin.exists /\ VersionMatches(bin.stdout) # {}
    THEN SubSeq(bin.stdout[Least(VersionMatches(bin.stdout)) + 1], 1, 3)
    ELSE VersionFromName(path)

(***************************************************************************)
(* The report's "symbols" mapping: a dict, kept as the sequence of its     *)
(* <<key, value>> items in insertion order.                                *)
(***************************************************************************)
HasKey(items, k) == \E i \in 1..Len(items) : items[i][1] = k

\* A plausible slip: a new key put in front of the others.
OrderedPutFront(items, k, v) ==
    IF HasKey(items, k)
    THEN [i \in 1..Len(items) |-> IF items[i][1] = k THEN <<k, v>> ELSE items[i]]
    ELSE <<<<k, v>>>> \o items

\* items[k] = v: a key already there keeps its place, a new one goes last.
OrderedPut(items, k, v) ==
    IF HasKey(items, k)
    THEN [i \in 1..Len(items) |-> IF items[i][1] = k THEN <<k, v>> ELSE items[i]]
    ELSE Append(items, <<k, v>>)

\* The entry stored for a target found in the table (lines 106-110).
TargetEntry(mangled, table, ref) ==
    [mangled  |-> mangled,
     offset   |-> Hex(table[mangled]),
     relative |-> Hex(table[mangled] - ref)]

\* The steps get_lldb_version adds to the log, tried twice on a slip.
ProbeStepsRetried(bin) ==
    IF bin.exists
    THEN <<"get_lldb_version", "lldb --version", "lldb --version">>
    ELSE <<"get_lldb_version">>

\* The steps get_lldb_version adds to the log: the call, and the subprocess
\* when the executable exists.
ProbeSteps(bin) ==
    IF bin.exists THEN <<"get_lldb_version", "lldb --version">>
    ELSE <<"get_lldb_version">>

\* What an uncaught exception leaves on the error stream.
Traceback(exc) == [msg |-> "Traceback (most recent call last)", arg |-> <<exc>>]

(***************************************************************************)
(* The run.                                                                *)
(***************************************************************************)
Init ==
    /\ pc = "main"
    /\ argv \in Argvs
    /\ liblldb_path = NoValue
    /\ result = NoValue
    /\ symbols = NoValue
    /\ ref_offset = NoValue
    /\ lldb_bin = NoValue
    /\ offsets = NoValue
    /\ idx = 0
    /\ stdout = <<>>
    /\ stderr = <<>>
    /\ exit_status = <<>>
    /\ log = <<>>

\* sys.exit(code), or the interpreter ending on an uncaught exception.
Exit(code, message) ==
    /\ stderr' = Append(stderr, message)
    /\ exit_status' = <<code>>
    /\ pc' = "done"

\* main, lines 119-121: no library path on the command line.
Usage ==
    /\ pc = "main"
    /\ Len(argv) < 2
    /\ Exit(1, [msg |-> "Usage: {} /path/to/liblldb.dylib", arg |-> <<argv[1]>>])
    /\ UNCHANGED <<argv, liblldb_path, result, symbols, ref_offset, lldb_bin,
                   offsets, idx, stdout, log>>

\* main, lines 123-124: dump_offsets is called with the path.
Main ==
    /\ pc = "main"
    /\ Len(argv) >= 2
    /\ liblldb_path' = argv[2]
    /\ pc' = "run_nm"
    /\ UNCHANGED <<argv, result, symbols, ref_offset, lldb_bin, offsets, idx,
                   stdout, stderr, exit_status, log>>

\* Lines 66-70 when the utility cannot be executed: subprocess.run raises.
RunNmRaises ==
    /\ pc = "run_nm"
    /\ log' = Append(log, "nm")
    /\ Exit(1, Traceback("FileNotFoundError"))
    /\ UNCHANGED <<argv, liblldb_path, result, symbols, ref_offset, lldb_bin,
                   offsets, idx, stdout>>

\* Lines 66-74: the utility ran and exited non-zero.
RunNmFailed ==
    /\ pc = "run_nm"
    /\ \E r \in NmResults :
        /\ r.returncode # 0
        /\ result' = r
        /\ Exit(1, [msg |-> "nm failed: {}", arg |-> <<r.stderr>>])
    /\ log' = Append(log, "nm")
    /\ UNCHANGED <<argv, liblldb_path, symbols, ref_offset, lldb_bin, offsets,
                   idx, stdout>>

\* Lines 66-72: the utility ran and exited with 0.
RunNm ==
    /\ pc = "run_nm"
    /\ \E r \in NmResults :
        /\ r.returncode = 0
        /\ result' = r
    /\ log' = Append(log, "nm")
    /\ pc' = "parse"
    /\ UNCHANGED <<argv, liblldb_path, symbols, ref_offset, lldb_bin, offsets,
                   idx, stdout, stderr, exit_status>>

\* Lines 77-85: the whole loop, no line raising.
ParseOutput ==
    /\ pc = "parse"
    /\ FirstBadLine(result.stdout) = 0
    /\ symbols' = ParseLines(result.stdout)
    /\ log' = Append(log, "parse")
    /\ pc' = "find_reference"
    /\ UNCHANGED <<argv, liblldb_path, result, ref_offset, lldb_bin, offsets,
                   idx, stdout, stderr, exit_status>>

\* Lines 77-85: int(addr, 16) raises ValueError on some qualifying line.
ParseRaises ==
    /\ pc = "parse"
    /\ FirstBadLine(result.stdout) # 0
    /\ symbols' = ParseLines(SubSeq(result.stdout, 1, FirstBadLine(result.stdout) - 1))
    /\ log' = Append(log, "parse")
    /\ Exit(1, Traceback("ValueError"))
    /\ UNCHANGED <<argv, liblldb_path, result, ref_offset, lldb_bin, offsets,
                   idx, stdout>>

\* Lines 88-90: the reference symbol is not a key of the table.
ReferenceMissing ==
    /\ pc = "find_reference"
    /\ REFERENCE_SYMBOL \notin DOMAIN symbols
    /\ log' = Append(log, "reference")
    /\ Exit(1, [msg |-> "Reference symbol {} not found!", arg |-> REFERENCE_SYMBOL])
    /\ UNCHANGED <<argv, liblldb_path, result, symbols, ref_offset, lldb_bin,
                   offsets, idx, stdout>>

\* Lines 88-92: ref_offset = symbols[REFERENCE_SYMBOL].
FindReference ==
    /\ pc = "find_reference"
    /\ REFERENCE_SYMBOL \in DOMAIN symbols
    /\ ref_offset' = symbols[REFERENCE_SYMBOL]
    /\ log' = Append(log, "reference")
    /\ pc' = "build_offsets"
    /\ UNCHANGED <<argv, liblldb_path, result, symbols, lldb_bin, offsets, idx,
                   stdout, stderr, exit_status>>

\* Line 96 with lines 49-50: the executable exists and subprocess.run
\* raises because it cannot be executed.
VersionProbeRaises ==
    /\ pc = "build_offsets"
    /\ \E bin \in LldbBins :
        /\ bin.exists /\ ~bin.starts
        /\ lldb_bin' = bin
        /\ log' = log \o ProbeSteps(bin)
    /\ Exit(1, Traceback("PermissionError"))
    /\ UNCHANGED <<argv, liblldb_path, result, symbols, ref_offset, offsets,
                   idx, stdout>>

\* Lines 95-100: the report is built, the version looked up first.
BuildOffsets ==
    /\ pc = "build_offsets"
    /\ \E bin \in LldbBins :
        /\ bin.exists => bin.starts
        /\ lldb_bin' = bin
        /\ log' = log \o ProbeSteps(bin)
        /\ offsets' = [version          |-> get_lldb_version(liblldb_path, bin),
                       reference_symbol |-> REFERENCE_SYMBOL,
                       reference_offset |-> Hex(ref_offset),
                       symbols          |-> <<>>]
    /\ idx' = 1
    /\ pc' = "targets"
    /\ UNCHANGED <<argv, liblldb_path, result, symbols, ref_offset, stdout,
                   stderr, exit_status>>

\* Lines 102-110: one iteration of the loop, the target being in the table.
TargetFound ==
    /\ pc = "targets"
    /\ idx <= Len(INTERNAL_SYMBOLS)
    /\ LET mangled   == INTERNAL_SYMBOLS[idx][1]
           demangled == INTERNAL_SYMBOLS[idx][2]
       IN  /\ mangled \in DOMAIN symbols
           /\ offsets' = [offsets EXCEPT !.symbols =
                  OrderedPut(@, demangled, TargetEntry(mangled, symbols, ref_offset))]
    /\ idx' = idx + 1
    /\ log' = Append(log, "target")
    /\ UNCHANGED <<pc, argv, liblldb_path, result, symbols, ref_offset, lldb_bin,
                   stdout, stderr, exit_status>>

\* Lines 102-103, 111-113: one iteration, the target not being in the table.
TargetMissing ==
    /\ pc = "targets"
    /\ idx <= Len(INTERNAL_SYMBOLS)
    /\ LET mangled   == INTERNAL_SYMBOLS[idx][1]
           demangled == INTERNAL_SYMBOLS[idx][2]
       IN  /\ mangled \notin DOMAIN symbols
           /\ offsets' = [offsets EXCEPT !.symbols = OrderedPut(@, demangled, None)]
           /\ stderr' = Append(stderr, [msg |-> "Warning: {} not found",
                                        arg |-> <<demangled>>])
    /\ idx' = idx + 1
    /\ log' = Append(log, "target")
    /\ UNCHANGED <<pc, argv, liblldb_path, result, symbols, ref_offset, lldb_bin,
                   stdout, exit_status>>

\* Lines 115 and 125: dump_offsets returns and main prints the report; the
\* interpreter then ends with status 0.
PrintReport ==
    /\ pc = "targets"
    /\ idx > Len(INTERNAL_SYMBOLS)
    /\ stdout' = Append(stdout, offsets)
    /\ exit_status' = <<0>>
    /\ log' = Append(log, "print")
    /\ pc' = "done"
    /\ UNCHANGED <<argv, liblldb_path, result, symbols, ref_offset, lldb_bin,
                   offsets, idx, stderr>>

Next ==
    \/ Usage
    \/ Main
    \/ RunNmRaises
    \/ RunNmFailed
    \/ RunNm
    \/ ParseOutput
    \/ ParseRaises
    \/ ReferenceMissing
    \/ FindReference
    \/ BuildOffsets
    \/ VersionProbeRaises
    \/ TargetFound
    \/ TargetMissing
    \/ PrintReport

Spec == Init /\ [][Next]_vars

(***************************************************************************)
(* Vocabulary of the properties.                                           *)
(***************************************************************************)
Logged(step) == \E i \in 1..Len(log) : log[i] = step

Finished == pc = "done"

\* The parsing loop has run to its end, so symbols is the complete table.
TableBuilt == Logged("parse") /\ (Finished => Logged("reference"))

\* A report has been written to standard output.
Reported == Len(stdout) > 0

Report == stdout[1]

Dump == result.stdout

\* The key a raw name is expected under: one leading underscore removed.
ExpectedKey(raw) ==
    IF Len(raw) > 0 /\ raw[1] = "_" THEN SubSeq(raw, 2, Len(raw)) ELSE raw

\* Line i of the dump is expected to contribute under key k.
Contributes(i, k) == Len(Dump[i]) >= 3 /\ ExpectedKey(Dump[i][3]) = k

\* The lines of the dump that are expected to contribute under key k.
LinesFor(k) == {i \in 1..Len(Dump) : Contributes(i, k)}

\* The address token of the last line expected to contribute under key k.
LastAddressFor(k) ==
    Dump[CHOOSE i \in 1..Len(Dump) :
            /\ Contributes(i, k)
            /\ \A j \in (i + 1)..Len(Dump) : ~Contributes(j, k)][1]

\* The report's value for a label.
EntryOf(label) ==
    Report.symbols[CHOOSE i \in 1..Len(Report.symbols) : Report.symbols[i][1] = label][2]

Warned(label) ==
    \E i \in 1..Len(stderr) :
        stderr[i] = [msg |-> "Warning: {} not found", arg |-> <<label>>]

\* A hex string as hex() writes it: optional "-", then "0x", then lower-case
\* digits without a leading zero unless the value is zero.
WellFormedHex(h) ==
    LET u == IF h[1] = "-" THEN Tail(h) ELSE h
    IN  /\ Len(u) >= 3 /\ u[1] = "0" /\ u[2] = "x"
        /\ \A i \in 3..Len(u) : \E d \in 1..16 : HexDigits[d] = u[i]
        /\ (u[3] = "0" => Len(u) = 3)

Targets == 1..Len(INTERNAL_SYMBOLS)

Mangled(i) == INTERNAL_SYMBOLS[i][1]

Label(i) == INTERNAL_SYMBOLS[i][2]

SummaryLabel == "TypeCategoryImpl::AddTypeSummary"

GetCategoryLabel == "DataVisualization::Categories::GetCategory"

Hex1000 == <<"0", "x", "1", "0", "0", "0">>

Hex2000 == <<"0", "x", "2", "0", "0", "0">>

(***************************************************************************)
(* C1: in every emitted report, reference_offset is the hexadecimal        *)
(* rendering of the reference's parsed address, and every target that is   *)
(* in the table has a non-null entry whose offset renders its address and  *)
(* whose relative renders the signed difference address - reference, a     *)
(* target below the reference getting a "-" string that differs from the   *)
(* string of every target above it.                                        *)
(***************************************************************************)
C1_SignedOffsets ==
    Reported =>
        /\ WellFormedHex(Report.reference_offset)
        /\ Int16(Report.reference_offset) = symbols[REFERENCE_SYMBOL]
        /\ \A i \in Targets :
            Mangled(i) \in DOMAIN symbols =>
                /\ HasKey(Report.symbols, Label(i))
                /\ EntryOf(Label(i)) # None
                /\ WellFormedHex(EntryOf(Label(i)).offset)
                /\ WellFormedHex(EntryOf(Label(i)).relative)
                /\ Int16(EntryOf(Label(i)).offset) = symbols[Mangled(i)]
                /\ Int16(EntryOf(Label(i)).relative)
                     = symbols[Mangled(i)] - symbols[REFERENCE_SYMBOL]
                /\ (EntryOf(Label(i)).relative[1] = "-"
                     <=> symbols[Mangled(i)] < symbols[REFERENCE_SYMBOL])
        /\ \A i, j \in Targets :
            (/\ Mangled(i) \in DOMAIN symbols
             /\ Mangled(j) \in DOMAIN symbols
             /\ symbols[Mangled(i)] < symbols[REFERENCE_SYMBOL]
             /\ symbols[Mangled(j)] > symbols[REFERENCE_SYMBOL])
            => EntryOf(Label(i)).relative # EntryOf(Label(j)).relative

\* A report with one target 0x1000 below the reference and one 0x1000 above.
C1_Witness ==
    /\ Reported
    /\ Report.reference_offset = Hex1000
    /\ HasKey(Report.symbols, GetCategoryLabel)
    /\ EntryOf(GetCategoryLabel) # None
    /\ EntryOf(GetCategoryLabel).relative = <<"-", "0", "x", "1", "0", "0", "0">>
    /\ EntryOf(SummaryLabel) # None
    /\ EntryOf(SummaryLabel).relative = Hex1000

(***************************************************************************)
(* C2: the end-to-end scenario.                                            *)
(***************************************************************************)
\* The two lines as the claim writes them: names with one underscore.
ClaimedDump ==
    << <<Chars("1","0","0","0"), <<"T">>, RawRef1>>,
       <<Chars("2","0","0","0"), <<"T">>, RawSummary1>> >>

\* The same two lines with the names as the parser needs them.
PrefixedDump ==
    << <<Chars("1","0","0","0"), <<"T">>, RawRef2>>,
       <<Chars("2","0","0","0"), <<"T">>, RawSummary2>> >>

ScenarioReport ==
    /\ Reported
    /\ exit_status = <<0>>
    /\ Report.reference_offset = Hex1000
    /\ HasKey(Report.symbols, SummaryLabel)
    /\ EntryOf(SummaryLabel) =
          [mangled  |-> <<"_", AddTypeSummaryHead>>,
           offset   |-> Hex2000,
           relative |-> Hex1000]

C3_MissingTargetsNonFatal ==
    (Finished /\ Logged("reference") /\ REFERENCE_SYMBOL \in DOMAIN symbols) =>
        /\ exit_status = <<0>>
        /\ Reported
        /\ \A i \in Targets :
            /\ HasKey(Report.symbols, Label(i))
            /\ Mangled(i) \notin DOMAIN symbols =>
                  (EntryOf(Label(i)) = None /\ Warned(Label(i)))

(***************************************************************************)
(* C4: a finished run has written a report exactly if its status is 0;     *)
(* with no argument, with the symbol lister failing, or with the reference *)
(* absent from the parsed table the status is 1 and standard output is     *)
(* empty; every other finished run has written exactly one report and has  *)
(* status 0.                                                               *)
(***************************************************************************)
FatalCase ==
    \/ Len(argv) < 2
    \/ (Logged("nm") /\ ~Logged("parse"))
    \/ (Logged("reference") /\ REFERENCE_SYMBOL \notin DOMAIN symbols)

C4_ReportIffExitZero ==
    Finished =>
        /\ (Reported <=> exit_status = <<0>>)
        /\ FatalCase => (exit_status = <<1>> /\ stdout = <<>>)
        /\ ~FatalCase => (exit_status = <<0>> /\ Len(stdout) = 1)

(***************************************************************************)
(* C5: once version detection has been attempted the finished run has exit *)
(* 0 and a report, whose version is the triple matched in the executable's *)
(* output when the executable exists and its output holds one, else the    *)
(* triple in the library's file name when there is one, else "unknown".    *)
(***************************************************************************)
C5_VersionNeverFails ==
    (Finished /\ Logged("get_lldb_version")) =>
        /\ exit_status = <<0>>
        /\ Reported
        /\ Report.version =
              IF lldb_bin.exists /\ VersionMatches(lldb_bin.stdout) # {}
              THEN SubSeq(lldb_bin.stdout[Least(VersionMatches(lldb_bin.stdout)) + 1], 1, 3)
              ELSE IF LibNameMatches(liblldb_path.file) # {}
              THEN SubSeq(liblldb_path.file, 2, 4)
              ELSE <<"unknown">>

(***************************************************************************)
(* C6: in the complete table every qualifying line's name is a key with    *)
(* exactly one leading underscore removed (none when it has none, the      *)
(* second kept when it has two) and there is no other key; the reference   *)
(* and the targets are found exactly when some qualifying line's name      *)
(* gives their name in this way.                                           *)
(***************************************************************************)
C6_OneUnderscoreStripped ==
    /\ TableBuilt =>
          DOMAIN symbols =
              {ExpectedKey(Dump[i][3]) : i \in {j \in 1..Len(Dump) : Len(Dump[j]) >= 3}}
    /\ (Finished /\ Logged("reference")) =>
          (LinesFor(REFERENCE_SYMBOL) = {}
              <=> stderr = <<[msg |-> "Reference symbol {} not found!",
                              arg |-> REFERENCE_SYMBOL]>>)
    /\ Reported =>
          \A i \in Targets :
              /\ HasKey(Report.symbols, Label(i))
              /\ (EntryOf(Label(i)) = None <=> LinesFor(Mangled(i)) = {})

\* A report for a dump with a two-underscore name kept under its second
\* underscore and a name without underscore kept as it is.
C6_Witness ==
    /\ Reported
    /\ \E i, j \in 1..Len(Dump) :
          /\ Len(Dump[i]) >= 3 /\ Dump[i][3] = RawSummary2
          /\ Len(Dump[j]) >= 3 /\ Dump[j][3] = RawSummary0
    /\ <<"_", AddTypeSummaryHead>> \in DOMAIN symbols
    /\ <<AddTypeSummaryHead>> \in DOMAIN symbols
    /\ EntryOf(SummaryLabel) # None

(***************************************************************************)
(* C7: once the parsing loop has been entered it runs to its end, and the  *)
(* table then has exactly one key per name of a line with three or more    *)
(* tokens, lines with fewer tokens contributing nothing.                   *)
(***************************************************************************)
C7_EveryLineParsed ==
    Logged("parse") =>
        /\ exit_status = <<1>> => Logged("reference")
        /\ DOMAIN symbols =
              {ExpectedKey(Dump[i][3]) : i \in {j \in 1..Len(Dump) : Len(Dump[j]) >= 3}}
        /\ \A k \in DOMAIN symbols : symbols[k] = Int16(LastAddressFor(k))

(***************************************************************************)
(* C8: an emitted report's symbols mapping has exactly the labels of       *)
(* INTERNAL_SYMBOLS as keys, in that list's order, and each value is null  *)
(* or a record whose mangled field is the list's mangled name.             *)
(***************************************************************************)
C8_ReportKeys ==
    Reported =>
        /\ Len(Report.symbols) = Len(INTERNAL_SYMBOLS)
        /\ \A i \in Targets :
            /\ Report.symbols[i][1] = Label(i)
            /\ \/ Report.symbols[i][2] = None
               \/ Report.symbols[i][2].mangled = Mangled(i)

\* A report whose two found targets stood in the dump in the opposite order
\* of the list, ahead of the reference.
C8_Witness ==
    /\ Reported
    /\ Len(Dump) = 3
    /\ Len(Dump[1]) >= 3 /\ Dump[1][3] = RawSummary2
    /\ Len(Dump[2]) >= 3 /\ Dump[2][3] = RawGetCategory2
    /\ Len(Dump[3]) >= 3 /\ Dump[3][3] = RawRef2
    /\ Report.symbols[1][2] # None
    /\ Report.symbols[3][2] # None
    /\ Report.symbols[2][2] = None

(***************************************************************************)
(* C9: the order of the steps.                                             *)
(***************************************************************************)
IsPrefix(s, t) == Len(s) <= Len(t) /\ \A i \in 1..Len(s) : s[i] = t[i]

TargetSteps == [i \in Targets |-> "target"]

\* The order the claim states: version detection after the last target.
ClaimedOrders ==
    { <<"nm", "parse", "reference">> \o TargetSteps \o v \o <<"print">> :
        v \in {<<"get_lldb_version">>, <<"get_lldb_version", "lldb --version">>} }

\* The order of the script: version detection before the first target.
ScriptOrders ==
    { <<"nm", "parse", "reference">> \o v \o TargetSteps \o <<"print">> :
        v \in {<<"get_lldb_version">>, <<"get_lldb_version", "lldb --version">>} }

\* C9 as claimed: the steps run in the order dumper, parse, reference
\* lookup, every target lookup, version detection, report.
C9_AsClaimed == \E o \in ClaimedOrders : IsPrefix(log, o)

\* C9 as amended: the steps run in the order dumper, parse, reference
\* lookup, version detection (its subprocess started at most once and only
\* if the executable exists), every target lookup, report; a report is
\* written exactly when all of them have run; version detection is never
\* attempted in a run that ends before the reference symbol is found.
C9_StepOrder ==
    /\ \E o \in ScriptOrders : IsPrefix(log, o)
    /\ Logged("lldb --version") => (lldb_bin.exists /\ Logged("get_lldb_version"))
    /\ Reported <=> log \in ScriptOrders
    /\ Logged("target") => (Logged("get_lldb_version") /\ idx > 1)
    /\ (Finished /\ ~Logged("get_lldb_version")) =>
          (exit_status = <<1>> /\ ~Reported /\ lldb_bin = NoValue)

\* A report written after the version probe ran ahead of nine lookups.
C9_Witness ==
    /\ Reported
    /\ log = <<"nm", "parse", "reference", "get_lldb_version", "lldb --version">>
               \o TargetSteps \o <<"print">>

(***************************************************************************)
(* C10: in the complete table every key maps to the address of the last    *)
(* qualifying line whose name, one leading underscore removed, is that     *)
(* key, so a line `_Foo` and a line `Foo` compete for the key `Foo`; the   *)
(* offsets an emitted report gives for the reference and for a found       *)
(* target are the addresses of the last such lines.                        *)
(***************************************************************************)
C10_LastLineWins ==
    /\ TableBuilt =>
          \A k \in DOMAIN symbols :
              /\ LinesFor(k) # {}
              /\ symbols[k] = Int16(LastAddressFor(k))
    /\ Reported =>
          /\ Int16(Report.reference_offset)
                = Int16(LastAddressFor(REFERENCE_SYMBOL))
          /\ \A i \in Targets :
                LinesFor(Mangled(i)) # {} =>
                    /\ EntryOf(Label(i)) # None
                    /\ Int16(EntryOf(Label(i)).offset)
                          = Int16(LastAddressFor(Mangled(i)))

\* A report for a dump in which a `_Foo` line at 0x2000 is followed by a
\* `Foo` line at 0x1000: the key `Foo` holds 0x1000.
C10_Witness ==
    /\ Reported
    /\ Len(Dump) = 3
    /\ Dump[1] = <<Chars("2","0","0","0"), <<"T">>, RawSummary1>>
    /\ Dump[2] = <<Chars("1","0","0","0"), <<"t">>, RawSummary0>>
    /\ Dump[3] = <<Chars("1","0","0","0"), <<"T">>, RawRef2>>
    /\ symbols[<<AddTypeSummaryHead>>] = 4096
    /\ Report.reference_offset = Hex1000

====
